---- MODULE Spec2Model ----
(***************************************************************************)
(* cargo-pgx `install`: model of src/cargo-pgx/src/commands/install.rs.    *)
(*                                                                         *)
(* Strings and paths are sequences of tokens.  The token "/" is the path   *)
(* separator; every other token is an opaque piece of a name ("lib",       *)
(* "foo", ".so", ...).  A PathBuf is such a string, parsed into components *)
(* whenever the code asks for components(), parent() or touches the file   *)
(* system.  The file system is keyed by component sequences.               *)
(***************************************************************************)
EXTENDS Naturals, Sequences, FiniteSets, TLC

\* ------------------------------------------------------------------ bounds
MaxPathLen == 4
MaxEntries == 3
MaxManifest == 2

\* ------------------------------------------------------------ str helpers
SEP == "/"

IsPrefix(p, s) == Len(p) <= Len(s) /\ SubSeq(s, 1, Len(p)) = p

\* str::starts_with
StartsWith(s, p) == IsPrefix(p, s)

\* str::ends_with
EndsWith(s, p) == Len(p) <= Len(s) /\ SubSeq(s, Len(s) - Len(p) + 1, Len(s)) = p

\* str::contains
Contains(s, p) == \E i \in 1..(Len(s) + 1) : i + Len(p) - 1 <= Len(s) /\ SubSeq(s, i, i + Len(p) - 1) = p

\* ----------------------------------------------------------- path helpers
\* Path::is_absolute / is_relative (Unix): a path is absolute iff it has a root.
IsAbsolute(p) == Len(p) > 0 /\ p[1] = SEP

IsRelative(p) == ~IsAbsolute(p)

\* The runs of tokens between separators, empty runs included.
RECURSIVE Segments(_, _)
Segments(p, cur) ==
    IF p = <<>> THEN <<cur>>
    ELSE IF Head(p) = SEP THEN <<cur>> \o Segments(Tail(p), <<>>)
    ELSE Segments(Tail(p), Append(cur, Head(p)))

RECURSIVE KeepSegments(_, _, _)
KeepSegments(segs, i, has_root) ==
    IF i > Len(segs) THEN <<>>
    ELSE LET s == segs[i]
             keep == s # <<>> /\ (s = <<".">> => (i = 1 /\ ~has_root))
         IN (IF keep THEN <<s>> ELSE <<>>) \o KeepSegments(segs, i + 1, has_root)

\* Path::components: the root (if any), then the non-empty segments; a "."
\* segment is kept only when it leads a relative path.
Components(p) ==
    (IF IsAbsolute(p) THEN << <<SEP>> >> ELSE <<>>)
        \o KeepSegments(Segments(p, <<>>), 1, IsAbsolute(p))

\* PathBuf::push: an absolute argument replaces the path; otherwise it is
\* appended, after a separator when the path does not already end in one.
Push(self, path) ==
    IF IsAbsolute(path) THEN path
    ELSE IF self # <<>> /\ self[Len(self)] # SEP THEN self \o <<SEP>> \o path
    ELSE self \o path

RECURSIVE PushAll(_, _)
PushAll(relative, components) ==
    IF components = <<>> THEN relative
    ELSE PushAll(Push(relative, Head(components)), Tail(components))

\* A variant that forgets `components.next()`, the skip of the root.
make_relative_keep_root(path) ==
    IF IsRelative(path) THEN path
    ELSE PushAll(<<>>, Components(path))

make_relative(path) ==
    IF IsRelative(path) THEN path
    ELSE PushAll(<<>>, Tail(Components(path)))

\* Path::parent as the file system sees it: all components but the last.
ParentKey(p) ==
    LET c == Components(p) IN IF c = <<>> THEN <<>> ELSE SubSeq(c, 1, Len(c) - 1)

\* Every non-empty prefix of a component sequence: what create_dir_all makes.
Prefixes(c) == {SubSeq(c, 1, k) : k \in 1..Len(c)}

\* --------------------------------------------------- names of this project
\* find_control_file(): the control file in the current directory and its stem.
ControlFile == <<"foo", ".control">>

ExtName == <<"foo">>

\* get_property("default_version") when the control file declares it.
DeclaredVersion == <<"1.2">>

\* get_target_dir()
TargetDir == <<"target">>

\* The bytes of a source file, as std::fs::copy carries them over.
SrcData(src) == <<"bytes of">> \o src

\* --------------------------------------------------------- the environment
Ok(name) == [ok |-> TRUE, name |-> name]

\* An io::Error yielded by the read_dir iterator in place of an entry.
Err == [ok |-> FALSE, name |-> <<>>]

\* A directory as read_dir sees it.
Dir(items) == [exists |-> TRUE, readable |-> TRUE, items |-> items]

AbsentDir == [exists |-> FALSE, readable |-> FALSE, items |-> <<>>]

UnreadableDir == [exists |-> TRUE, readable |-> FALSE, items |-> <<>>]

\* Enumerations of at most n distinct items of S, in every order.
Listings(S, n) ==
    {s \in UNION {[1..k -> S] : k \in 0..n} : \A i, j \in DOMAIN s : s[i] = s[j] => i = j}

DirStates(S, n) == {AbsentDir, UnreadableDir} \cup {Dir(s) : s \in Listings(S, n)}

LibItems ==
    { Ok(<<"lib", "foo", ".so">>), Ok(<<"lib", "foo", ".d">>), Ok(<<"lib", "bar", ".so">>),
      Ok(<<"lib", "foo", ".dylib">>), Ok(<<"foo", ".so">>), Err }

SqlItems ==
    { Ok(<<"foo", "--", "1.0", "--", "1.1", ".sql">>), Ok(<<"foo", "--", "1.1", "--", "1.2", ".sql">>),
      Ok(<<"helpers", ".sql">>), Ok(<<"foo", "--", "0.9", ".sql", ".bak">>),
      Ok(<<"bar", "--", "1.0", ".sql">>), Err }

FragmentNames == {<<"a", ".sql">>, <<"b", ".sql">>}

FragmentText(name) == IF name = <<"a", ".sql">> THEN <<"A;">> ELSE <<"B;">>

Manifests == UNION {[1..k -> FragmentNames] : k \in 0..MaxManifest}

PathChars == {SEP, ".", "a"}

PathStrings == UNION {[1..k -> PathChars] : k \in 0..MaxPathLen}

DefaultEnv ==
    [ pkglibdir |-> <<SEP, "usr", SEP, "lib">>,
      sharedir |-> <<SEP, "usr", SEP, "share">>,
      target |-> [d \in {"debug", "release"} |-> Dir(<<Ok(<<"lib", "foo", ".so">>)>>)],
      sql_dir |-> Dir(<<Ok(<<"helpers", ".sql">>), Ok(<<"foo", "--", "1.0", "--", "1.1", ".sql">>)>>),
      load_order |-> << <<"a", ".sql">>, <<"b", ".sql">> >>,
      unreadable |-> {},
      stale |-> FALSE,
      dirs_exist |-> FALSE ]

\* The environments checked: the default one varied one part at a time.
PathEnvs == {[DefaultEnv EXCEPT !.pkglibdir = p, !.sharedir = p] : p \in PathStrings}

TargetEnvs(profile) ==
    {[DefaultEnv EXCEPT !.target[profile] = d] : d \in DirStates(LibItems, MaxEntries)}

SqlDirEnvs ==
    {[DefaultEnv EXCEPT !.sql_dir = d] :
        d \in {UnreadableDir} \cup {Dir(s) : s \in Listings(SqlItems, MaxEntries)}}

ManifestEnvs ==
    {[DefaultEnv EXCEPT !.load_order = m, !.unreadable = u, !.stale = st, !.dirs_exist = st] :
        m \in Manifests, u \in SUBSET FragmentNames, st \in BOOLEAN}

Environments(profile) == PathEnvs \cup TargetEnvs(profile) \cup SqlDirEnvs \cup ManifestEnvs

\* Option<PathBuf>
None == [some |-> FALSE, path |-> <<>>]

Some(p) == [some |-> TRUE, path |-> p]

BaseDirectoryArgs == {None, Some(<<SEP, "stage">>)}

\* ---------------------------------------------------------------- state
VARIABLES
    env,                \* the file system and external commands the run meets
    base_directory_arg, \* install_extension's Option<PathBuf> argument
    is_release,         \* install_extension's argument
    pc,                 \* the last step of the pipeline that succeeded
    error,              \* the message the process exited with, NoError while running
    build_status,       \* what became of the `cargo build` child process
    pkgdir, extdir,     \* the relocated configuration directories
    shlibpath,          \* the library find_library_file returned
    schema_generated,   \* generate_schema() returned Ok
    dirs,               \* the directories that exist, by components
    files,              \* the files install wrote or found at its destinations
    target_filename,    \* copy_sql_files' versioned script path
    sql_open,           \* the versioned script has been created and is open
    frag_idx,           \* position of the load-order loop
    sql_iter,           \* what is left of read_dir("sql/")
    swallowed           \* an io::Error of a read_dir iterator was dropped

vars ==
    << env, base_directory_arg, is_release, pc, error, build_status, pkgdir, extdir,
       shlibpath, schema_generated, dirs, files, target_filename, sql_open, frag_idx,
       sql_iter, swallowed >>

NoError == "running"

Steps ==
    << "Start", "BuildInvoked", "ConfigQueried", "ArtifactLocated", "ControlFileCopied",
       "LibraryCopied", "SchemaGenerated", "SqlAssembled", "UpgradesStaged", "Done" >>

\* base_directory.unwrap_or("/".into())
base_directory ==
    IF base_directory_arg.some THEN base_directory_arg.path ELSE <<SEP>>

get_pkglibdir(e) == e.pkglibdir

get_extensiondir(e) == Push(e.sharedir, <<"extension">>)

\* A file of the model's file system, with `data` stored at `key`.
WriteFile(fs, key, data) ==
    [k \in DOMAIN fs \cup {key} |-> IF k = key THEN data ELSE fs[k]]

\* ------------------------------------------------------------ build_extension
\* An unchecked exit status: the `if !status.success()` test left out.
build_extension_unchecked(spawned, success) ==
    IF ~spawned THEN "failed to spawn cargo" ELSE NoError

build_extension(spawned, success) ==
    IF ~spawned THEN "failed to spawn cargo"
    ELSE IF ~success THEN "failed to build extension"
    ELSE NoError

\* ------------------------------------------------------------------ copy_file
\* copy_file with the result of std::fs::copy dropped instead of handled.
copy_file_unchecked(src, dest, mkdir_ok, copy_ok, ds, fs) ==
    LET parent == ParentKey(dest)
        create == parent \notin ds
        ds1 == IF create /\ mkdir_ok THEN ds \cup Prefixes(parent) ELSE ds
        copied == copy_ok /\ (parent = <<>> \/ parent \in ds1)
    IN  [ error |-> NoError,
          dirs |-> ds1,
          files |-> IF copied THEN WriteFile(fs, Components(dest), SrcData(src)) ELSE fs ]

copy_file(src, dest, mkdir_ok, copy_ok, ds, fs) ==
    LET parent == ParentKey(dest)
        create == parent \notin ds
        ds1 == IF create THEN ds \cup Prefixes(parent) ELSE ds
        copied == copy_ok /\ (parent = <<>> \/ parent \in ds1)
    IN  IF create /\ ~mkdir_ok
        THEN [error |-> "failed to create destination directory", dirs |-> ds, files |-> fs]
        ELSE IF ~copied
        THEN [error |-> "failed copying", dirs |-> ds1, files |-> fs]
        ELSE [error |-> NoError, dirs |-> ds1,
              files |-> WriteFile(fs, Components(dest), SrcData(src))]

\* ---------------------------------------------------------- find_library_file
ProfileDir(release) == IF release THEN "release" ELSE "debug"

\* A predicate that forgets the `lib` prefix test.
IsLibraryFileAnyPrefix(filename, extname) ==
    /\ Contains(filename, extname)
    /\ (EndsWith(filename, <<".so">>) \/ EndsWith(filename, <<".dylib">>) \/ EndsWith(filename, <<".dll">>))

IsLibraryFile(filename, extname) ==
    /\ Contains(filename, extname)
    /\ StartsWith(filename, <<"lib">>)
    /\ (EndsWith(filename, <<".so">>) \/ EndsWith(filename, <<".dylib">>) \/ EndsWith(filename, <<".dll">>))

RECURSIVE ScanLibrary(_, _, _, _)
ScanLibrary(items, extname, target_dir, dropped) ==
    IF items = <<>>
    THEN [error |-> "library file not found", path |-> <<>>, swallowed |-> dropped]
    ELSE LET f == Head(items) IN
         IF f.ok /\ IsLibraryFile(f.name, extname)
         THEN [error |-> NoError, path |-> Push(target_dir, f.name), swallowed |-> dropped]
         ELSE ScanLibrary(Tail(items), extname, target_dir, dropped \/ ~f.ok)

find_library_file(extname, release, target) ==
    LET target_dir == Push(TargetDir, <<ProfileDir(release)>>)
        d == target[ProfileDir(release)]
    IN  IF ~d.exists
        THEN [error |-> "target directory does not exist", path |-> <<>>, swallowed |-> FALSE]
        ELSE IF ~d.readable
        THEN [error |-> "Unable to read", path |-> <<>>, swallowed |-> FALSE]
        ELSE ScanLibrary(d.items, extname, target_dir, FALSE)

\* --------------------------------------------------------------- destinations
\* The control file sent to the library directory instead.
control_dest_in_pkgdir == Push(Push(base_directory, pkgdir), ControlFile)

\* install_extension: base_directory / extdir / control_file
control_dest == Push(Push(base_directory, extdir), ControlFile)

\* install_extension: base_directory / pkgdir / "{extname}.so"
library_dest == Push(Push(base_directory, pkgdir), ExtName \o <<".so">>)

\* copy_sql_files: base_directory / extdir / "{extname}--{version}.sql"
VersionedScript(base, ext, version) ==
    Push(Push(base, ext), ExtName \o <<"--">> \o version \o <<".sql">>)

\* copy_sql_files: the destination of a staged upgrade script
upgrade_dest(filename) == Push(Push(<<>>, extdir), filename)

\* A predicate that forgets the `.sql` suffix test.
IsUpgradeScriptAnySuffix(filename, extname) == StartsWith(filename, extname \o <<"--">>)

IsUpgradeScript(filename, extname) ==
    StartsWith(filename, extname \o <<"--">>) /\ EndsWith(filename, <<".sql">>)

\* The path copy_sql_files reads a load-order entry from, and prints in its banner.
FragmentPath(file) == <<"sql", SEP>> \o file

\* The write_all calls of one turn of the load-order loop, with the banner's
\* path line written after the contents.
FragmentWritesBannerLast(file, contents) ==
    << <<"--", "\n">>, <<"--", "\n">>, contents, <<"-- ">> \o FragmentPath(file) \o <<"\n">>,
       <<"\n", "\n", "\n">> >>

\* The write_all calls of one turn of the load-order loop, in order.
FragmentWrites(file, contents) ==
    << <<"--", "\n">>, <<"-- ">> \o FragmentPath(file) \o <<"\n">>, <<"--", "\n">>, contents,
       <<"\n", "\n", "\n">> >>

RECURSIVE Concat(_)
Concat(ss) == IF ss = <<>> THEN <<>> ELSE Head(ss) \o Concat(Tail(ss))

\* ------------------------------------------------------------------- Init
InitDirs(e) ==
    {<< <<SEP>> >>} \cup
    (IF e.dirs_exist
     THEN Prefixes(Components(Push(base_directory, make_relative(get_extensiondir(e)))))
            \cup Prefixes(Components(make_relative(get_extensiondir(e))))
     ELSE {})

InitFiles(e) ==
    IF e.stale
    THEN WriteFile(<<>>,
            Components(VersionedScript(base_directory, make_relative(get_extensiondir(e)),
                                       DeclaredVersion)),
            <<"stale">>)
    ELSE <<>>

Init ==
    /\ is_release \in BOOLEAN
    /\ base_directory_arg \in BaseDirectoryArgs
    /\ env \in Environments(ProfileDir(is_release))
    /\ pc = "Start"
    /\ error = NoError
    /\ build_status = "not run"
    /\ pkgdir = <<>>
    /\ extdir = <<>>
    /\ shlibpath = <<>>
    /\ schema_generated = FALSE
    /\ dirs = InitDirs(env)
    /\ files = InitFiles(env)
    /\ target_filename = <<>>
    /\ sql_open = FALSE
    /\ frag_idx = 0
    /\ sql_iter = <<>>
    /\ swallowed = FALSE

Running(step) == pc = step /\ error = NoError

\* The step reached after an outcome: handle_result! and exit_with_error! end
\* the process, so a failed step leaves pc where it was.
After(outcome, next) == IF outcome = NoError THEN next ELSE pc

\* ---------------------------------------------------------------- actions
\* install_extension lines 20-24: find_control_file, the major version, the build.
BuildExtension ==
    /\ Running("Start")
    /\ \E found \in BOOLEAN, probed \in BOOLEAN, spawned \in BOOLEAN, success \in BOOLEAN :
         LET outcome ==
                 IF ~found THEN "control file not found"
                 ELSE IF ~probed THEN "pg_config failed"
                 ELSE build_extension(spawned, success)
         IN  /\ build_status' =
                    IF ~found \/ ~probed THEN "not run"
                    ELSE IF ~spawned THEN "spawn failed"
                    ELSE IF success THEN "exit zero" ELSE "exit nonzero"
             /\ error' = outcome
             /\ pc' = After(outcome, "BuildInvoked")
    /\ UNCHANGED << env, base_directory_arg, is_release, pkgdir, extdir, shlibpath,
                    schema_generated, dirs, files, target_filename, sql_open, frag_idx,
                    sql_iter, swallowed >>

\* install_extension lines 28-29
QueryConfig ==
    /\ Running("BuildInvoked")
    /\ \E probed \in BOOLEAN :
         IF probed
         THEN /\ pkgdir' = make_relative(get_pkglibdir(env))
              /\ extdir' = make_relative(get_extensiondir(env))
              /\ pc' = "ConfigQueried"
              /\ error' = NoError
         ELSE /\ error' = "pg_config failed"
              /\ UNCHANGED << pkgdir, extdir, pc >>
    /\ UNCHANGED << env, base_directory_arg, is_release, build_status, shlibpath,
                    schema_generated, dirs, files, target_filename, sql_open, frag_idx,
                    sql_iter, swallowed >>

\* install_extension line 30
LocateArtifact ==
    /\ Running("ConfigQueried")
    /\ LET r == find_library_file(ExtName, is_release, env.target)
       IN  /\ shlibpath' = r.path
           /\ swallowed' = (swallowed \/ r.swallowed)
           /\ error' = r.error
           /\ pc' = After(r.error, "ArtifactLocated")
    /\ UNCHANGED << env, base_directory_arg, is_release, build_status, pkgdir, extdir,
                    schema_generated, dirs, files, target_filename, sql_open, frag_idx,
                    sql_iter >>

\* install_extension lines 32-37
CopyControlFile ==
    /\ Running("ArtifactLocated")
    /\ \E mkdir_ok \in BOOLEAN, copy_ok \in BOOLEAN :
         LET r == copy_file(ControlFile, control_dest, mkdir_ok, copy_ok, dirs, files)
         IN  /\ dirs' = r.dirs
             /\ files' = r.files
             /\ error' = r.error
             /\ pc' = After(r.error, "ControlFileCopied")
    /\ UNCHANGED << env, base_directory_arg, is_release, build_status, pkgdir, extdir,
                    shlibpath, schema_generated, target_filename, sql_open, frag_idx,
                    sql_iter, swallowed >>

\* install_extension lines 39-44
CopyLibrary ==
    /\ Running("ControlFileCopied")
    /\ \E mkdir_ok \in BOOLEAN, copy_ok \in BOOLEAN :
         LET r == copy_file(shlibpath, library_dest, mkdir_ok, copy_ok, dirs, files)
         IN  /\ dirs' = r.dirs
             /\ files' = r.files
             /\ error' = r.error
             /\ pc' = After(r.error, "LibraryCopied")
    /\ UNCHANGED << env, base_directory_arg, is_release, build_status, pkgdir, extdir,
                    shlibpath, schema_generated, target_filename, sql_open, frag_idx,
                    sql_iter, swallowed >>

\* install_extension lines 46-48
GenerateSchema ==
    /\ Running("LibraryCopied")
    /\ \E ok \in BOOLEAN :
         LET outcome == IF ok THEN NoError ELSE "failed to generate SQL schema"
         IN  /\ schema_generated' = ok
             /\ error' = outcome
             /\ pc' = After(outcome, "SchemaGenerated")
    /\ UNCHANGED << env, base_directory_arg, is_release, build_status, pkgdir, extdir,
                    shlibpath, dirs, files, target_filename, sql_open, frag_idx, sql_iter,
                    swallowed >>

\* copy_sql_files lines 114-119: the load order, the target name, File::create.
CreateVersionedScript ==
    /\ Running("SchemaGenerated")
    /\ ~sql_open
    /\ \E declared \in BOOLEAN, create_ok \in BOOLEAN :
         LET target == VersionedScript(base_directory, extdir, DeclaredVersion)
             created == create_ok /\ ParentKey(target) \in dirs
         IN  IF ~declared
             THEN /\ error' = "cannot determine extension version number"
                  /\ UNCHANGED << files, target_filename, sql_open, frag_idx >>
             ELSE IF ~created
             THEN /\ error' = "File::create failed"
                  /\ target_filename' = target
                  /\ UNCHANGED << files, sql_open, frag_idx >>
             ELSE /\ error' = NoError
                  /\ target_filename' = target
                  /\ files' = WriteFile(files, Components(target), <<>>)
                  /\ sql_open' = TRUE
                  /\ frag_idx' = 1
    /\ UNCHANGED << env, base_directory_arg, is_release, pc, build_status, pkgdir, extdir,
                    shlibpath, schema_generated, dirs, sql_iter, swallowed >>

\* A read that yields nothing for an unreadable fragment instead of failing.
read_to_string_lenient(e, file) ==
    IF file \in e.unreadable
    THEN [error |-> NoError, contents |-> <<>>]
    ELSE [error |-> NoError, contents |-> FragmentText(file)]

\* std::fs::read_to_string(&file).expect(...)
read_to_string(e, file) ==
    IF file \in e.unreadable
    THEN [error |-> "could not open", contents |-> <<>>]
    ELSE [error |-> NoError, contents |-> FragmentText(file)]

\* copy_sql_files lines 127-146: one turn of the load-order loop.  `written`
\* is the number of write_all calls that succeed before one fails.
WriteFragment ==
    /\ Running("SchemaGenerated")
    /\ sql_open
    /\ frag_idx <= Len(env.load_order)
    /\ LET file == env.load_order[frag_idx]
           r == read_to_string(env, file)
           key == Components(target_filename)
       IN  IF r.error # NoError
           THEN /\ error' = r.error
                /\ UNCHANGED << files, frag_idx >>
           ELSE \E written \in 0..Len(FragmentWrites(file, r.contents)) :
                  LET writes == FragmentWrites(file, r.contents)
                  IN  /\ files' = WriteFile(files, key,
                                      files[key] \o Concat(SubSeq(writes, 1, written)))
                      /\ IF written = Len(writes)
                         THEN error' = NoError /\ frag_idx' = frag_idx + 1
                         ELSE error' = "couldn't write version SQL file" /\ UNCHANGED frag_idx
    /\ UNCHANGED << env, base_directory_arg, is_release, pc, build_status, pkgdir, extdir,
                    shlibpath, schema_generated, dirs, target_filename, sql_open, sql_iter,
                    swallowed >>

\* copy_sql_files line 149: the load-order loop is over; read_dir("sql/").
ReadSqlDir ==
    /\ Running("SchemaGenerated")
    /\ sql_open
    /\ frag_idx > Len(env.load_order)
    /\ pc' = "SqlAssembled"
    /\ IF env.sql_dir.exists /\ env.sql_dir.readable
       THEN error' = NoError /\ sql_iter' = env.sql_dir.items
       ELSE error' = "failed to read ./sql/ directory" /\ UNCHANGED sql_iter
    /\ UNCHANGED << env, base_directory_arg, is_release, build_status, pkgdir, extdir,
                    shlibpath, schema_generated, dirs, files, target_filename, sql_open,
                    frag_idx, swallowed >>

\* copy_sql_files lines 149-160: one turn of the upgrade-script loop.
StageEntry ==
    /\ Running("SqlAssembled")
    /\ sql_iter # <<>>
    /\ sql_iter' = Tail(sql_iter)
    /\ LET sql == Head(sql_iter) IN
       IF ~sql.ok
       THEN /\ swallowed' = TRUE
            /\ UNCHANGED << error, dirs, files >>
       ELSE IF ~IsUpgradeScript(sql.name, ExtName)
       THEN UNCHANGED << error, dirs, files, swallowed >>
       ELSE \E mkdir_ok \in BOOLEAN, copy_ok \in BOOLEAN :
              LET r == copy_file(Push(<<"sql", SEP>>, sql.name), upgrade_dest(sql.name),
                                 mkdir_ok, copy_ok, dirs, files)
              IN  /\ dirs' = r.dirs
                  /\ files' = r.files
                  /\ error' = r.error
                  /\ UNCHANGED swallowed
    /\ UNCHANGED << env, base_directory_arg, is_release, pc, build_status, pkgdir, extdir,
                    shlibpath, schema_generated, target_filename, sql_open, frag_idx >>

\* copy_sql_files line 161: the read_dir iterator is exhausted.
FinishStaging ==
    /\ Running("SqlAssembled")
    /\ sql_iter = <<>>
    /\ pc' = "UpgradesStaged"
    /\ UNCHANGED << env, base_directory_arg, is_release, error, build_status, pkgdir, extdir,
                    shlibpath, schema_generated, dirs, files, target_filename, sql_open,
                    frag_idx, sql_iter, swallowed >>

\* install_extension line 52
Finish ==
    /\ Running("UpgradesStaged")
    /\ pc' = "Done"
    /\ UNCHANGED << env, base_directory_arg, is_release, error, build_status, pkgdir, extdir,
                    shlibpath, schema_generated, dirs, files, target_filename, sql_open,
                    frag_idx, sql_iter, swallowed >>

Next ==
    \/ BuildExtension
    \/ QueryConfig
    \/ LocateArtifact
    \/ CopyControlFile
    \/ CopyLibrary
    \/ GenerateSchema
    \/ CreateVersionedScript
    \/ WriteFragment
    \/ ReadSqlDir
    \/ StageEntry
    \/ FinishStaging
    \/ Finish

Spec == Init /\ [][Next]_vars

\* ------------------------------------------------------------ vocabulary
Rank(step) == CHOOSE i \in 1..Len(Steps) : Steps[i] = step

Reached(step) == Rank(pc) >= Rank(step)

\* The directory the relocated extension directory names under the staging root.
ScriptDirKey == Components(Push(base_directory, extdir))

ControlKey == ScriptDirKey \o <<ControlFile>>

LibraryKey == Components(Push(base_directory, pkgdir)) \o <<ExtName \o <<".so">>>>

ScriptKey == ScriptDirKey \o <<ExtName \o <<"--">> \o DeclaredVersion \o <<".sql">>>>

\* The names read_dir("sql/") yields.
SqlNames == {env.sql_dir.items[i].name : i \in {j \in DOMAIN env.sql_dir.items : env.sql_dir.items[j].ok}}

\* `{extname}--*.sql`, said token by token.
UpgradeNames == {n \in SqlNames : Len(n) >= 3 /\ n[1] = "foo" /\ n[2] = "--" /\ n[Len(n)] = ".sql"}

\* Where copy_sql_files sends an upgrade script: its dest_dir is extdir.
UpgradeKey(n) == Components(extdir) \o <<n>>

\* The banner, the contents and three newlines of each fragment, in order.
RECURSIVE ExpectedScript(_)
ExpectedScript(names) ==
    IF names = <<>> THEN <<>>
    ELSE <<"--", "\n", "-- ", "sql", SEP>> \o Head(names) \o <<"\n", "--", "\n">>
            \o FragmentText(Head(names)) \o <<"\n", "\n", "\n">>
            \o ExpectedScript(Tail(names))

\* ------------------------------------------------------------------ claims
\* C1: every file install writes (control file, shared library, versioned
\* script, each staged upgrade script) lies at staging_root joined with the
\* relocated extension or pkglib directory and the file name, so nothing is
\* written outside staging_root.
C1_ArtifactsUnderStagingRoot ==
    \A k \in DOMAIN files :
        /\ IsPrefix(Components(base_directory), k)
        /\ \E d \in {make_relative(get_extensiondir(env)), make_relative(get_pkglibdir(env))} :
             k = Components(Push(base_directory, d)) \o <<k[Len(k)]>>

\* C4: when every fragment is readable the versioned script is created empty
\* and then holds exactly, for each load-order entry in order, the three banner
\* lines, the fragment's contents and three newlines, whatever the enumeration
\* order of the sql/ directory.
C4_ScriptIsOrderedConcatenation ==
    /\ (sql_open /\ error = NoError
           => files[ScriptKey] = ExpectedScript(SubSeq(env.load_order, 1, frag_idx - 1)))
    /\ (Reached("SqlAssembled") => files[ScriptKey] = ExpectedScript(env.load_order))

C4_Witness ==
    /\ pc = "Done"
    /\ env.stale
    /\ env.load_order = << <<"b", ".sql">>, <<"a", ".sql">> >>

\* C5: a load-order entry that cannot be read ends the run with a fragment-read
\* error at that entry and is never skipped: the script holds exactly the
\* fragments before it, and no upgrade script is staged.
C5_UnreadableFragmentIsFatal ==
    /\ (Reached("SqlAssembled") => \A j \in DOMAIN env.load_order : env.load_order[j] \notin env.unreadable)
    /\ (sql_open => \A j \in 1..(frag_idx - 1) : env.load_order[j] \notin env.unreadable)
    /\ (error = "could not open" =>
           /\ pc = "SchemaGenerated"
           /\ frag_idx \in DOMAIN env.load_order
           /\ env.load_order[frag_idx] \in env.unreadable
           /\ files[ScriptKey] = ExpectedScript(SubSeq(env.load_order, 1, frag_idx - 1))
           /\ sql_iter = <<>>
           /\ \A n \in SqlNames : UpgradeKey(n) \notin DOMAIN files)

C5_Witness ==
    /\ error = "could not open"
    /\ frag_idx = 2
    /\ files[ScriptKey] = ExpectedScript(<< <<"a", ".sql">> >>)

\* C9: no error is swallowed: install never reaches Done after an error
\* occurred, a failed read of a directory entry included.
C9_NoErrorSwallowed == pc = "Done" => ~swallowed

\* C2: the steps run in the fixed order Start, BuildInvoked, ConfigQueried,
\* ArtifactLocated, ControlFileCopied, LibraryCopied, SchemaGenerated,
\* SqlAssembled, UpgradesStaged, Done: each step is reached from the one before
\* it and only after that one succeeded, none is skipped or repeated, and Done
\* comes after all of them.
C2_StepResults ==
    /\ (Reached("BuildInvoked") => build_status = "exit zero")
    /\ (~Reached("ConfigQueried") => pkgdir = <<>> /\ extdir = <<>>)
    /\ (~Reached("ArtifactLocated") => shlibpath = <<>> /\ files = InitFiles(env))
    /\ (Reached("ArtifactLocated") => shlibpath # <<>>)
    /\ (~Reached("ControlFileCopied") => LibraryKey \notin DOMAIN files)
    /\ (Reached("ControlFileCopied") => ControlKey \in DOMAIN files)
    /\ (~Reached("LibraryCopied") => ~schema_generated)
    /\ (Reached("LibraryCopied") => LibraryKey \in DOMAIN files)
    /\ (~Reached("SchemaGenerated") => ~sql_open)
    /\ (Reached("SchemaGenerated") => schema_generated)
    /\ (~Reached("SqlAssembled") => sql_iter = <<>> /\ \A n \in SqlNames : UpgradeKey(n) \notin DOMAIN files)
    /\ (Reached("SqlAssembled") => sql_open /\ frag_idx = Len(env.load_order) + 1)
    /\ (Reached("UpgradesStaged") => sql_iter = <<>> /\ error = NoError)

\* C2: every step reached carries the results of the steps before it, and each
\* transition starts from a running pipeline and moves to the next step only.
C2_LinearOrder ==
    /\ []C2_StepResults
    /\ [][error = NoError /\ (pc' = pc \/ Rank(pc') = Rank(pc) + 1)]_vars

C2_Witness == pc = "Done" /\ Cardinality(DOMAIN files) >= 4

\* C3: a failed step ends the run where it is: nothing runs and nothing is
\* written afterwards, and what earlier steps wrote stays (no rollback).  When
\* the build fails, no file has been written at all.
C3_BuildFailureWritesNothing ==
    /\ (build_status \in {"spawn failed", "exit nonzero"} => pc = "Start" /\ error # NoError)
    /\ (pc = "Start" => files = InitFiles(env) /\ dirs = InitDirs(env))

\* C3: a failed build leaves everything untouched; no step is taken once the
\* process has exited, and no step removes or alters an earlier step's file.
C3_AbortWithoutRollback ==
    /\ []C3_BuildFailureWritesNothing
    /\ [][ /\ error = NoError
           /\ dirs \subseteq dirs'
           /\ \A k \in DOMAIN files : k \in DOMAIN files' /\ (k # ScriptKey => files'[k] = files[k])
         ]_vars

C3_Witness ==
    /\ error = "failed copying"
    /\ pc = "ControlFileCopied"
    /\ ControlKey \in DOMAIN files
    /\ LibraryKey \notin DOMAIN files

\* C6: locate searches build_root/debug or build_root/release by profile, fails
\* with MissingBuildOutput when that directory is absent, returns the first
\* enumerated entry whose name contains extname, starts with `lib` and ends with
\* .so, .dylib or .dll, and fails with ArtifactNotFound exactly when no
\* enumerated entry does.
C6_Searched == env.target[IF is_release THEN "release" ELSE "debug"]

C6_Accepts(n) ==
    /\ n[1] = "lib"
    /\ n[Len(n)] \in {".so", ".dylib", ".dll"}
    /\ \E i \in DOMAIN n : n[i] = "foo"

C6_Matches == {i \in DOMAIN C6_Searched.items : C6_Searched.items[i].ok /\ C6_Accepts(C6_Searched.items[i].name)}

\* C6: the outcome of locate, for the directory of the chosen profile.
C6_LocateResult ==
    LET failed == pc = "ConfigQueried" /\ error # NoError
        d == C6_Searched
    IN  (failed \/ Reached("ArtifactLocated")) =>
          IF ~d.exists THEN failed /\ error = "target directory does not exist"
          ELSE IF ~d.readable THEN failed /\ error = "Unable to read"
          ELSE IF C6_Matches = {} THEN failed /\ error = "library file not found"
          ELSE /\ Reached("ArtifactLocated")
               /\ \E i \in C6_Matches :
                    /\ \A j \in C6_Matches : i <= j
                    /\ shlibpath = <<"target", SEP, IF is_release THEN "release" ELSE "debug", SEP>>
                                      \o d.items[i].name

C6_Witness ==
    /\ pc = "ArtifactLocated"
    /\ Len(C6_Searched.items) = 3
    /\ {C6_Searched.items[i] : i \in 1..2} = {Ok(<<"lib", "foo", ".d">>), Ok(<<"lib", "bar", ".so">>)}
    /\ shlibpath = <<"target", SEP, "release", SEP, "lib", "foo", ".so">>

\* C7: stage_upgrades copies to dest_dir/filename every enumerated entry whose
\* name starts with `{extname}--` and ends with `.sql` and no other entry,
\* creating dest_dir when absent; the files staged do not depend on the
\* enumeration order.
C7_StagesExactlyUpgradeScripts ==
    Reached("UpgradesStaged") =>
        /\ \A n \in UpgradeNames :
             /\ UpgradeKey(n) \in DOMAIN files
             /\ files[UpgradeKey(n)] = <<"bytes of", "sql", SEP>> \o n
             /\ Components(extdir) \in dirs
        /\ DOMAIN files = {ControlKey, LibraryKey, ScriptKey} \cup {UpgradeKey(n) : n \in UpgradeNames}

C7_Witness ==
    /\ pc = "UpgradesStaged"
    /\ ~env.dirs_exist
    /\ Cardinality(UpgradeNames) = 2
    /\ Len(env.sql_dir.items) = 3
    /\ env.sql_dir.items[2] = Ok(<<"helpers", ".sql">>)

\* C8: relocate returns a relative path unchanged and an absolute path with
\* only its root component removed, the other components kept in order
\* ("/usr/lib" becomes "usr/lib"); so relocating twice equals relocating once.
C8_Relocated(raw, r) ==
    /\ IsRelative(raw) => r = raw
    /\ IsAbsolute(raw) => r # <<SEP>> /\ (r # <<>> => r[1] # SEP) /\ Components(r) = Tail(Components(raw))
    /\ raw = <<SEP, "usr", SEP, "lib">> => r = <<"usr", SEP, "lib">>
    /\ make_relative(r) = r

\* C8: relocate on both configuration-reported directories.
C8_RelocateIdempotent ==
    Reached("ConfigQueried") =>
        /\ C8_Relocated(env.pkglibdir, pkgdir)
        /\ C8_Relocated(Push(env.sharedir, <<"extension">>), extdir)

C8_Witness ==
    /\ pc = "ConfigQueried"
    /\ env.pkglibdir = <<SEP, SEP, "a", SEP>>
    /\ pkgdir = <<"a">>

\* C10: when the versioned script is about to be created its directory, the
\* staging root joined with the relocated extension directory, exists already:
\* the control file was copied into that same directory, which copy_file
\* created when absent, and the script's creation makes no directory.
C10_ScriptDirExists ==
    Reached("SchemaGenerated") =>
        /\ ScriptDirKey \in dirs
        /\ ControlKey \in DOMAIN files
        /\ SubSeq(ScriptKey, 1, Len(ScriptKey) - 1) = SubSeq(ControlKey, 1, Len(ControlKey) - 1)
        /\ (target_filename # <<>> => ParentKey(target_filename) = ScriptDirKey)

C10_Witness ==
    /\ pc = "SchemaGenerated"
    /\ sql_open
    /\ ~env.dirs_exist
    /\ base_directory_arg.some

====
